---- MODULE Spec2Model ----
(***************************************************************************)
(* A model of the score leaderboard of src/src/avl.rs: an AVL tree keyed   *)
(* by score whose nodes hold the bucket of players tied at that score,     *)
(* with cached heights and descendant counts.                              *)
(*                                                                         *)
(* An Option<T> is a sequence of length 0 (None) or 1 (Some).  A node is a *)
(* record with the fields of struct AVLNode.  A `&mut self` method is an   *)
(* operator from the node's old value to its new value.  A panic           *)
(* (`unwrap()` on None, `unreachable!()`) makes the operator return the    *)
(* value Poisoned, which every caller hands on, and the action that called *)
(* it sets `panicked`.  Scores are u64 and sizes are usize in the source;  *)
(* no value of the model comes near 2^64, so the arithmetic is exact, and  *)
(* the one subtraction that can go below zero is reported by               *)
(* top_n_players as `underflow`.                                           *)
(***************************************************************************)
EXTENDS Integers, Sequences, FiniteSets

VARIABLES root, last, panicked, phase, pending, nodes, yielded

vars == <<root, last, panicked, phase, pending, nodes, yielded>>

\* ---------------------------------------------------------------- bounds

\* Scores are drawn from 1..MaxScore.
MaxScore == 4

\* Insert is disabled once the tree holds MaxEntries player entries.
MaxEntries == 4

\* Largest n asked of top_n_players beyond the population.
MaxOver == 1

\* The balance specification: one player, scores 1..MaxBalScore, one entry
\* per score.
MaxBalScore == 8

\* The insert-only specification: scores 1..MaxInsScore, at most
\* MaxInsEntries player entries.
MaxInsScore == 5

MaxInsEntries == 5

\* The iteration specification: one player, scores 1..MaxIterScore, one
\* entry per score.
MaxIterScore == 5

Players == {"p", "q"}

Scores == 1..MaxScore

BalScores == 1..MaxBalScore

IterScores == 1..MaxIterScore

InsScores == 1..MaxInsScore

\* ---------------------------------------------------------------- values

None == <<>>

Some(x) == <<x>>

Max(a, b) == IF a >= b THEN a ELSE b

Poisoned ==
    [player_id |-> <<>>, score |-> 0, right |-> None, left |-> None,
     height |-> -1, children |-> 0]

IsPanic(n) == n.height = -1

retain(players, ply_id) == SelectSeq(players, LAMBDA x : x # ply_id)

\* ---------------------------------------------------------------- AVLNode

AVLNode_new(player, score) ==
    [player_id |-> <<player>>, score |-> score, right |-> None, left |-> None,
     height |-> 1, children |-> 0]

height_left(n) == IF n.left = None THEN 0 ELSE n.left[1].height

height_right(n) == IF n.right = None THEN 0 ELSE n.right[1].height

update_attrs_NoPlusOne(n) ==
    [n EXCEPT
        !.height = Max(height_left(n), height_right(n)) + 1,
        !.children = (IF n.left = None THEN 0 ELSE n.left[1].children)
                     + (IF n.right = None THEN 0 ELSE n.right[1].children + 1)]

update_attrs(n) ==
    [n EXCEPT
        !.height = Max(height_left(n), height_right(n)) + 1,
        !.children = (IF n.left = None THEN 0 ELSE n.left[1].children + 1)
                     + (IF n.right = None THEN 0 ELSE n.right[1].children + 1)]

unbalanced(n) ==
    LET d == height_left(n) - height_right(n)
    IN  (IF d < 0 THEN -d ELSE d) > 1

\* b, the right child, becomes the subtree's root; the old root, with b's
\* left subtree as its right child, becomes b's left child.
rotate_left(n) ==
    IF n.right = None THEN Poisoned
    ELSE LET b == n.right[1]
             a == update_attrs([n EXCEPT !.right = b.left])
         IN  update_attrs([b EXCEPT !.left = Some(a)])

rotate_right(n) ==
    IF n.left = None THEN Poisoned
    ELSE LET b == n.left[1]
             c == update_attrs([n EXCEPT !.left = b.right])
         IN  update_attrs([b EXCEPT !.right = Some(c)])

rebalance_if_needed_Inverted(n) ==
    IF ~unbalanced(n) THEN n
    ELSE IF height_right(n) - height_left(n) > 1
    THEN IF n.right = None THEN Poisoned
         ELSE IF height_right(n.right[1]) < height_left(n.right[1])
              THEN rotate_left(n)
              ELSE LET r == rotate_right(n.right[1])
                   IN  IF IsPanic(r) THEN Poisoned
                       ELSE rotate_left([n EXCEPT !.right = Some(r)])
    ELSE IF n.left = None THEN Poisoned
         ELSE IF height_left(n.left[1]) < height_right(n.left[1])
              THEN rotate_right(n)
              ELSE LET l == rotate_left(n.left[1])
                   IN  IF IsPanic(l) THEN Poisoned
                       ELSE rotate_right([n EXCEPT !.left = Some(l)])

rebalance_if_needed(n) ==
    IF ~unbalanced(n) THEN n
    ELSE IF height_right(n) - height_left(n) > 1
    THEN IF n.right = None THEN Poisoned
         ELSE IF height_right(n.right[1]) > height_left(n.right[1])
              THEN rotate_left(n)
              ELSE LET r == rotate_right(n.right[1])
                   IN  IF IsPanic(r) THEN Poisoned
                       ELSE rotate_left([n EXCEPT !.right = Some(r)])
    ELSE IF n.left = None THEN Poisoned
         ELSE IF height_left(n.left[1]) > height_right(n.left[1])
              THEN rotate_right(n)
              ELSE LET l == rotate_left(n.left[1])
                   IN  IF IsPanic(l) THEN Poisoned
                       ELSE rotate_right([n EXCEPT !.left = Some(l)])

insert_NoRebalance(n, player, score) ==
    LET RECURSIVE walk(_)
        walk(m) ==
            IF m.score = score
            THEN [m EXCEPT !.player_id = Append(m.player_id, player)]
            ELSE IF score < m.score
            THEN LET l == IF m.left # None THEN walk(m.left[1])
                          ELSE AVLNode_new(player, score)
                 IN  update_attrs([m EXCEPT !.left = Some(l)])
            ELSE LET r == IF m.right # None THEN walk(m.right[1])
                          ELSE AVLNode_new(player, score)
                 IN  update_attrs([m EXCEPT !.right = Some(r)])
    IN  walk(n)

insert_Dedup(n, player, score) ==
    LET RECURSIVE walk(_)
        walk(m) ==
            IF m.score = score
            THEN IF \E i \in DOMAIN m.player_id : m.player_id[i] = player
                 THEN m
                 ELSE [m EXCEPT !.player_id = Append(m.player_id, player)]
            ELSE IF score < m.score
            THEN LET l == IF m.left # None THEN walk(m.left[1])
                          ELSE AVLNode_new(player, score)
                 IN  IF IsPanic(l) THEN Poisoned
                     ELSE rebalance_if_needed(update_attrs([m EXCEPT !.left = Some(l)]))
            ELSE LET r == IF m.right # None THEN walk(m.right[1])
                          ELSE AVLNode_new(player, score)
                 IN  IF IsPanic(r) THEN Poisoned
                     ELSE rebalance_if_needed(update_attrs([m EXCEPT !.right = Some(r)]))
    IN  walk(n)

RECURSIVE insert(_, _, _)
insert(n, player, score) ==
    IF n.score = score
    THEN [n EXCEPT !.player_id = Append(n.player_id, player)]
    ELSE IF score < n.score
    THEN LET l == IF n.left # None THEN insert(n.left[1], player, score)
                  ELSE AVLNode_new(player, score)
         IN  IF IsPanic(l) THEN Poisoned
             ELSE rebalance_if_needed(update_attrs([n EXCEPT !.left = Some(l)]))
    ELSE LET r == IF n.right # None THEN insert(n.right[1], player, score)
                  ELSE AVLNode_new(player, score)
         IN  IF IsPanic(r) THEN Poisoned
             ELSE rebalance_if_needed(update_attrs([n EXCEPT !.right = Some(r)]))

\* The number of nodes on insert's path at which rebalance_if_needed, called
\* as insert returns through them, finds the node unbalanced and rotates.
RECURSIVE insert_rebalances(_, _, _)
insert_rebalances(n, player, score) ==
    IF n.score = score THEN 0
    ELSE IF score < n.score
    THEN LET l == IF n.left # None THEN insert(n.left[1], player, score)
                  ELSE AVLNode_new(player, score)
         IN  (IF n.left # None THEN insert_rebalances(n.left[1], player, score)
              ELSE 0)
             + (IF unbalanced(update_attrs([n EXCEPT !.left = Some(l)]))
                THEN 1 ELSE 0)
    ELSE LET r == IF n.right # None THEN insert(n.right[1], player, score)
                  ELSE AVLNode_new(player, score)
         IN  (IF n.right # None THEN insert_rebalances(n.right[1], player, score)
              ELSE 0)
             + (IF unbalanced(update_attrs([n EXCEPT !.right = Some(r)]))
                THEN 1 ELSE 0)

\* The deleting methods return whether the caller must drop the node
\* (`del`) and the node's new value.
Drop(n) == [del |-> TRUE, node |-> n]

Keep(n) == [del |-> FALSE, node |-> n]

\* What the caller's `if child.f() { self.child = None }` leaves in the
\* child field.
Settle(r) == IF r.del THEN None ELSE Some(r.node)

RECURSIVE delete(_)
delete(n) ==
    IF n.left = None /\ n.right = None
    THEN Drop(n)
    ELSE IF (n.left # None) # (n.right # None)
    THEN LET only_child == IF n.left # None THEN n.left[1] ELSE n.right[1]
         IN  Keep(rebalance_if_needed(update_attrs(only_child)))
    ELSE LET l  == n.left[1]
             l2 == [l EXCEPT !.score = n.score, !.player_id = n.player_id]
             d  == delete(l2)
         IN  IF IsPanic(d.node) THEN Keep(Poisoned)
             ELSE Keep(rebalance_if_needed(update_attrs(
                     [n EXCEPT !.score = l.score, !.player_id = l.player_id,
                               !.left = Settle(d)])))

delete_player_score_KeepEmpty(n, player_id, score) ==
    LET RECURSIVE walk(_)
        walk(m0) ==
            IF m0.score = score
            THEN Keep(rebalance_if_needed(update_attrs(
                    [m0 EXCEPT !.player_id = retain(m0.player_id, player_id)])))
            ELSE IF score < m0.score
            THEN IF m0.left = None THEN Keep(rebalance_if_needed(update_attrs(m0)))
                 ELSE LET d == walk(m0.left[1])
                      IN  IF IsPanic(d.node) THEN Keep(Poisoned)
                          ELSE Keep(rebalance_if_needed(update_attrs(
                                  [m0 EXCEPT !.left = Settle(d)])))
            ELSE IF m0.right = None THEN Keep(rebalance_if_needed(update_attrs(m0)))
                 ELSE LET d == walk(m0.right[1])
                      IN  IF IsPanic(d.node) THEN Keep(Poisoned)
                          ELSE Keep(rebalance_if_needed(update_attrs(
                                  [m0 EXCEPT !.right = Settle(d)])))
    IN  walk(n)

RECURSIVE delete_player_score(_, _, _)
delete_player_score(n, player_id, score) ==
    IF n.score = score
    THEN LET m == [n EXCEPT !.player_id = retain(n.player_id, player_id)]
         IN  IF Len(m.player_id) < 1 THEN delete(m)
             ELSE Keep(rebalance_if_needed(update_attrs(m)))
    ELSE IF score < n.score
    THEN IF n.left = None THEN Keep(rebalance_if_needed(update_attrs(n)))
         ELSE LET d == delete_player_score(n.left[1], player_id, score)
              IN  IF IsPanic(d.node) THEN Keep(Poisoned)
                  ELSE Keep(rebalance_if_needed(update_attrs(
                          [n EXCEPT !.left = Settle(d)])))
    ELSE IF n.right = None THEN Keep(rebalance_if_needed(update_attrs(n)))
         ELSE LET d == delete_player_score(n.right[1], player_id, score)
              IN  IF IsPanic(d.node) THEN Keep(Poisoned)
                  ELSE Keep(rebalance_if_needed(update_attrs(
                          [n EXCEPT !.right = Settle(d)])))

delete_player_SkipRight(n, ply_id) ==
    LET RECURSIVE walk(_)
        walk(m0) ==
            LET dl == IF m0.left = None THEN Keep(m0) ELSE walk(m0.left[1])
            IN  IF IsPanic(dl.node) THEN Keep(Poisoned)
                ELSE LET m == [m0 EXCEPT
                                 !.left = IF m0.left = None THEN None ELSE Settle(dl),
                                 !.player_id = retain(m0.player_id, ply_id)]
                     IN  IF Len(m.player_id) < 1 THEN delete(m)
                         ELSE Keep(rebalance_if_needed(update_attrs(m)))
    IN  walk(n)

\* Post-order: the left subtree, then the right subtree, then this node.
RECURSIVE delete_player(_, _)
delete_player(n, ply_id) ==
    LET dl == IF n.left = None THEN Keep(n) ELSE delete_player(n.left[1], ply_id)
        dr == IF n.right = None THEN Keep(n) ELSE delete_player(n.right[1], ply_id)
    IN  IF IsPanic(dl.node) \/ IsPanic(dr.node) THEN Keep(Poisoned)
        ELSE LET m == [n EXCEPT
                         !.left = IF n.left = None THEN None ELSE Settle(dl),
                         !.right = IF n.right = None THEN None ELSE Settle(dr),
                         !.player_id = retain(n.player_id, ply_id)]
             IN  IF Len(m.player_id) < 1 THEN delete(m)
                 ELSE Keep(rebalance_if_needed(update_attrs(m)))

\* ---------------------------------------------------------------- queries

Entry(player, score) == [player |-> player, score |-> score]

Min(a, b) == IF a <= b THEN a ELSE b

\* The result of top_n_players: the pairs, and whether a usize subtraction
\* `n - results.len()` went below zero on the way (a panic in a debug build,
\* a wrapped value in a release build).
Listing(items, underflow) == [items |-> items, underflow |-> underflow]

RECURSIVE top_n_players_WholeBucket(_, _)
top_n_players_WholeBucket(node, n) ==
    LET fromRight == IF node.right = None THEN Listing(<<>>, FALSE)
                     ELSE top_n_players_WholeBucket(node.right[1], n)
        rem == n - Len(fromRight.items)
    IN  IF fromRight.underflow \/ rem < 0 THEN Listing(fromRight.items, TRUE)
        ELSE IF rem < 1 THEN fromRight
        ELSE LET own == [i \in 1..Len(node.player_id)
                            |-> Entry(node.player_id[i], node.score)]
                 results == fromRight.items \o own
                 rem2 == n - Len(results)
             IN  IF rem2 < 0 THEN Listing(results, TRUE)
                 ELSE IF node.left = None THEN Listing(results, FALSE)
                 ELSE LET fromLeft == top_n_players_WholeBucket(node.left[1], rem2)
                      IN  Listing(results \o fromLeft.items, fromLeft.underflow)

RECURSIVE top_n_players(_, _)
top_n_players(node, n) ==
    LET fromRight == IF node.right = None THEN Listing(<<>>, FALSE)
                     ELSE top_n_players(node.right[1], n)
        rem == n - Len(fromRight.items)
    IN  IF fromRight.underflow \/ rem < 0 THEN Listing(fromRight.items, TRUE)
        ELSE IF rem < 1 THEN fromRight
        ELSE LET own == [i \in 1..Min(rem, Len(node.player_id))
                            |-> Entry(node.player_id[i], node.score)]
                 results == fromRight.items \o own
                 rem2 == n - Len(results)
             IN  IF rem2 < 0 THEN Listing(results, TRUE)
                 ELSE IF node.left = None THEN Listing(results, FALSE)
                 ELSE LET fromLeft == top_n_players(node.left[1], rem2)
                      IN  Listing(results \o fromLeft.items, fromLeft.underflow)

RECURSIVE rank_of_AnyPlayer(_, _, _, _)
rank_of_AnyPlayer(node, player, score, num_better) ==
    LET right_tree_size == IF node.right = None THEN 0
                           ELSE node.right[1].children + 1
    IN  IF node.score = score
        THEN Some(1 + right_tree_size + num_better)
        ELSE IF score < node.score
        THEN IF node.left = None THEN None
             ELSE rank_of_AnyPlayer(node.left[1], player, score,
                                    1 + right_tree_size + num_better)
        ELSE IF node.right = None THEN None
             ELSE rank_of_AnyPlayer(node.right[1], player, score, num_better)

RECURSIVE rank_of_ForgetNode(_, _, _, _)
rank_of_ForgetNode(node, player, score, num_better) ==
    LET right_tree_size == IF node.right = None THEN 0
                           ELSE node.right[1].children + 1
    IN  IF node.score = score
        THEN IF \A i \in 1..Len(node.player_id) : node.player_id[i] # player
             THEN None
             ELSE Some(1 + right_tree_size + num_better)
        ELSE IF score < node.score
        THEN IF node.left = None THEN None
             ELSE rank_of_ForgetNode(node.left[1], player, score,
                                     right_tree_size + num_better)
        ELSE IF node.right = None THEN None
             ELSE rank_of_ForgetNode(node.right[1], player, score, num_better)

RECURSIVE rank_of(_, _, _, _)
rank_of(node, player, score, num_better) ==
    LET right_tree_size == IF node.right = None THEN 0
                           ELSE node.right[1].children + 1
    IN  IF node.score = score
        THEN IF \A i \in 1..Len(node.player_id) : node.player_id[i] # player
             THEN None
             ELSE Some(1 + right_tree_size + num_better)
        ELSE IF score < node.score
        THEN IF node.left = None THEN None
             ELSE rank_of(node.left[1], player, score,
                          1 + right_tree_size + num_better)
        ELSE IF node.right = None THEN None
             ELSE rank_of(node.right[1], player, score, num_better)

\* ---------------------------------------------------------------- Leaderboard

Leaderboard_new == None

Leaderboard_insert(r, player_id, score) ==
    IF r # None THEN Some(insert(r[1], player_id, score))
    ELSE Some([player_id |-> <<player_id>>, score |-> score, right |-> None,
               left |-> None, height |-> 1, children |-> 0])

Leaderboard_delete_player(r, player_id) ==
    IF r # None THEN Settle(delete_player(r[1], player_id)) ELSE r

Leaderboard_delete_player_score(r, player_id, score) ==
    IF r # None THEN Settle(delete_player_score(r[1], player_id, score)) ELSE r

Leaderboard_top_n_players(r, n) ==
    IF r # None THEN top_n_players(r[1], n) ELSE Listing(<<>>, FALSE)

Leaderboard_rank_of(r, player, score) ==
    IF r # None THEN rank_of(r[1], player, score, 0) ELSE None

\* The (bucket, score) item of a node.
Bucket(score, players) == [score |-> score, players |-> players]

Leaderboard_pre_order(r) == IF r # None THEN <<r[1]>> ELSE <<>>

\* next(): the stack it leaves and the Option it returns.
LeaderboardIter_next_LeftFirst(stack) ==
    IF Len(stack) = 0 THEN [nodes |-> stack, item |-> None]
    ELSE LET n == stack[Len(stack)]
             popped == SubSeq(stack, 1, Len(stack) - 1)
             withLeft == IF n.left # None THEN Append(popped, n.left[1])
                         ELSE popped
             withRight == IF n.right # None THEN Append(withLeft, n.right[1])
                          ELSE withLeft
         IN  [nodes |-> withRight, item |-> Some(Bucket(n.score, n.player_id))]

LeaderboardIter_next(stack) ==
    IF Len(stack) = 0 THEN [nodes |-> stack, item |-> None]
    ELSE LET n == stack[Len(stack)]
             popped == SubSeq(stack, 1, Len(stack) - 1)
             withRight == IF n.right # None THEN Append(popped, n.right[1])
                          ELSE popped
             withLeft == IF n.left # None THEN Append(withRight, n.left[1])
                         ELSE withRight
         IN  [nodes |-> withLeft, item |-> Some(Bucket(n.score, n.player_id))]

\* ---------------------------------------------------------------- measures
\* Recomputed from the shape by a full traversal, never from the caches.

RECURSIVE SubNodes(_)
SubNodes(o) ==
    IF o = None THEN {}
    ELSE {o[1]} \cup SubNodes(o[1].left) \cup SubNodes(o[1].right)

RECURSIVE TrueHeight(_)
TrueHeight(o) ==
    IF o = None THEN 0
    ELSE 1 + Max(TrueHeight(o[1].left), TrueHeight(o[1].right))

RECURSIVE Size(_)
Size(o) == IF o = None THEN 0 ELSE 1 + Size(o[1].left) + Size(o[1].right)

RECURSIVE Entries(_)
Entries(o) ==
    IF o = None THEN 0
    ELSE Len(o[1].player_id) + Entries(o[1].left) + Entries(o[1].right)

RECURSIVE InOrder(_)
InOrder(o) ==
    IF o = None THEN <<>>
    ELSE InOrder(o[1].left) \o <<o[1].score>> \o InOrder(o[1].right)

ScoresOf(o) == {n.score : n \in SubNodes(o)}

\* The (score, bucket) pair of every node, in pre-order.
RECURSIVE Buckets(_)
Buckets(o) ==
    IF o = None THEN <<>>
    ELSE <<Bucket(o[1].score, o[1].player_id)>>
         \o Buckets(o[1].left) \o Buckets(o[1].right)

Count(seq, x) == Cardinality({i \in DOMAIN seq : seq[i] = x})

SameBag(s, t) ==
    /\ Len(s) = Len(t)
    /\ \A i \in DOMAIN s : Count(s, s[i]) = Count(t, s[i])

Stored(o, player, score) ==
    \E n \in SubNodes(o) :
        n.score = score /\ \E i \in DOMAIN n.player_id : n.player_id[i] = player

\* ---------------------------------------------------------------- state
\* root     the Leaderboard's root: Option<AVLNode>
\* last     the last mutating call: its name, its player, how many nodes it
\*          removed (negative: added) and the score the root had before it
\*          (0 for an empty tree)
\* panicked whether a call panicked (the program has stopped)
\* phase    "free" in Spec and SpecBal; in SpecRoundTrip "insert", then "delete";
\*          in SpecIter "free", "iterating" while a LeaderboardIter lives and
\*          "done" once its next() has returned None
\* pending  SpecRoundTrip: the inserted pairs not yet deleted
\* nodes    the LeaderboardIter's stack (the top is the last element)
\* yielded  the items the LeaderboardIter has returned so far
\* top_n_players and rank_of take `&self` and change nothing: they are the
\* operators above, applied to the root of every reachable state.

RootScore(r) == IF r = None THEN 0 ELSE r[1].score

IsPanicRoot(r) == r # None /\ IsPanic(r[1])

Call(op, player, newRoot) ==
    [op |-> op, player |-> player,
     removed |-> IF IsPanicRoot(newRoot) THEN 0 ELSE Size(root) - Size(newRoot),
     rootScore |-> RootScore(root)]

Init ==
    /\ root = Leaderboard_new
    /\ last = [op |-> "new", player |-> "", removed |-> 0, rootScore |-> 0]
    /\ panicked = FALSE
    /\ phase = "free"
    /\ pending = {}
    /\ nodes = <<>>
    /\ yielded = <<>>

\* A mutating operation was called and left newRoot, or panicked on the way.
Mutate(op, player, newRoot) ==
    /\ ~panicked
    /\ last' = Call(op, player, newRoot)
    /\ IF IsPanicRoot(newRoot)
       THEN panicked' = TRUE /\ root' = root
       ELSE panicked' = FALSE /\ root' = newRoot

InsertOp(p, s) == Mutate("insert", p, Leaderboard_insert(root, p, s))

DeletePlayerOp(p) == Mutate("delete_player", p, Leaderboard_delete_player(root, p))

DeletePlayerScoreOp(p, s) ==
    Mutate("delete_player_score", p, Leaderboard_delete_player_score(root, p, s))

Insert(p, s) ==
    /\ Entries(root) < MaxEntries
    /\ InsertOp(p, s)
    /\ UNCHANGED <<phase, pending, nodes, yielded>>

DeletePlayer(p) ==
    /\ DeletePlayerOp(p)
    /\ UNCHANGED <<phase, pending, nodes, yielded>>

DeletePlayerScore(p, s) ==
    /\ DeletePlayerScoreOp(p, s)
    /\ UNCHANGED <<phase, pending, nodes, yielded>>

Next ==
    \/ \E p \in Players, s \in Scores : Insert(p, s)
    \/ \E p \in Players : DeletePlayer(p)
    \/ \E p \in Players, s \in Scores : DeletePlayerScore(p, s)

Spec == Init /\ [][Next]_vars

\* ---------------------------------------------------------------- SpecBal
\* One player and one entry per score, so that trees of MaxBalScore nodes
\* are reached: every call inserts an absent score or deletes a present one.

BalInsert(s) ==
    /\ s \notin ScoresOf(root)
    /\ InsertOp("p", s)
    /\ UNCHANGED <<phase, pending, nodes, yielded>>

BalDeletePlayerScore(s) ==
    /\ s \in ScoresOf(root)
    /\ DeletePlayerScoreOp("p", s)
    /\ UNCHANGED <<phase, pending, nodes, yielded>>

NextBal ==
    \/ \E s \in BalScores : BalInsert(s)
    \/ \E s \in BalScores : BalDeletePlayerScore(s)

SpecBal == Init /\ [][NextBal]_vars

\* ---------------------------------------------------------------- SpecRoundTrip
\* A sequence of inserts on an empty Leaderboard, then delete_player_score
\* for each inserted pair, one by one, in any order.

InitRoundTrip ==
    /\ root = Leaderboard_new
    /\ last = [op |-> "new", player |-> "", removed |-> 0, rootScore |-> 0]
    /\ panicked = FALSE
    /\ phase = "insert"
    /\ pending = {}
    /\ nodes = <<>>
    /\ yielded = <<>>

RoundTripInsert(p, s) ==
    /\ phase = "insert"
    /\ Entries(root) < MaxEntries
    /\ InsertOp(p, s)
    /\ pending' = pending \cup {Entry(p, s)}
    /\ UNCHANGED <<phase, nodes, yielded>>

RoundTripDelete(p, s) ==
    /\ Entry(p, s) \in pending
    /\ DeletePlayerScoreOp(p, s)
    /\ phase' = "delete"
    /\ pending' = pending \ {Entry(p, s)}
    /\ UNCHANGED <<nodes, yielded>>

NextRoundTrip ==
    \/ \E p \in Players, s \in Scores : RoundTripInsert(p, s)
    \/ \E p \in Players, s \in Scores : RoundTripDelete(p, s)

SpecRoundTrip == InitRoundTrip /\ [][NextRoundTrip]_vars

\* ---------------------------------------------------------------- SpecIter
\* A tree is built and changed while no iterator lives (pre_order borrows
\* the Leaderboard, so nothing can change it during an iteration); then
\* pre_order() is called and next() is called until it returns None.

IterInsert(s) ==
    /\ phase = "free"
    /\ s \notin ScoresOf(root)
    /\ InsertOp("p", s)
    /\ UNCHANGED <<phase, pending, nodes, yielded>>

IterDeletePlayerScore(s) ==
    /\ phase = "free"
    /\ s \in ScoresOf(root)
    /\ DeletePlayerScoreOp("p", s)
    /\ UNCHANGED <<phase, pending, nodes, yielded>>

PreOrder ==
    /\ phase = "free"
    /\ ~panicked
    /\ nodes' = Leaderboard_pre_order(root)
    /\ yielded' = <<>>
    /\ phase' = "iterating"
    /\ UNCHANGED <<root, last, panicked, pending>>

IterNext ==
    /\ phase = "iterating"
    /\ LET r == LeaderboardIter_next(nodes)
       IN  /\ nodes' = r.nodes
           /\ IF r.item = None
              THEN phase' = "done" /\ yielded' = yielded
              ELSE phase' = phase /\ yielded' = Append(yielded, r.item[1])
    /\ UNCHANGED <<root, last, panicked, pending>>

\* The iterator is dropped.
IterDrop ==
    /\ phase \in {"iterating", "done"}
    /\ phase' = "free"
    /\ nodes' = <<>>
    /\ yielded' = <<>>
    /\ UNCHANGED <<root, last, panicked, pending>>

NextIter ==
    \/ \E s \in IterScores : IterInsert(s)
    \/ \E s \in IterScores : IterDeletePlayerScore(s)
    \/ PreOrder
    \/ IterNext
    \/ IterDrop

SpecIter == Init /\ [][NextIter]_vars

\* ---------------------------------------------------------------- SpecInserts
\* Only insert is called.

OnlyInsert(p, s) ==
    /\ Entries(root) < MaxInsEntries
    /\ InsertOp(p, s)
    /\ UNCHANGED <<phase, pending, nodes, yielded>>

NextInserts == \E p \in Players, s \in InsScores : OnlyInsert(p, s)

SpecInserts == Init /\ [][NextInserts]_vars

\* ---------------------------------------------------------------- properties

Range(seq) == {seq[i] : i \in DOMAIN seq}

\* C1: BST ordering.  After every sequence of insert, delete_player and
\* delete_player_score calls, every score in a node's left subtree is
\* smaller than the node's score and every score in its right subtree is
\* larger.
BSTOrdering ==
    \A n \in SubNodes(root) :
        /\ \A x \in ScoresOf(n.left) : x < n.score
        /\ \A y \in ScoresOf(n.right) : y > n.score

\* C2: AVL balance.  After every sequence of calls, the true heights of the
\* two subtrees of every node differ by at most 1.
AVLBalance ==
    \A n \in SubNodes(root) :
        LET d == TrueHeight(n.left) - TrueHeight(n.right)
        IN  d \in {-1, 0, 1}

\* C3: exact caches.  After every call, every node's cached height is
\* 1 + the larger true height of its children and its cached `children`
\* is the number of nodes of its two subtrees.
ExactCaches ==
    \A n \in SubNodes(root) :
        /\ n.height = 1 + Max(TrueHeight(n.left), TrueHeight(n.right))
        /\ n.children = Size(n.left) + Size(n.right)

\* An insert has just rotated at the root (the root's score changed) of a
\* tree that now has nodes on both sides.
WitnessExactCaches ==
    /\ last.op = "insert"
    /\ last.removed = -1
    /\ last.rootScore # 0
    /\ root # None
    /\ last.rootScore # root[1].score
    /\ root[1].left # None
    /\ root[1].right # None
    /\ root[1].children >= 2

\* C4: score uniqueness.  After every sequence of calls no two nodes hold
\* the same score.
ScoreUniqueness == Cardinality(ScoresOf(root)) = Size(root)

\* C5: bucket invariant.  After every call every node of the tree has a
\* non-empty bucket: a node whose bucket the call emptied is gone when the
\* call returns (and with it the root, when it was the last node).
BucketInvariant ==
    /\ \A n \in SubNodes(root) : Len(n.player_id) >= 1
    /\ (Entries(root) = 0 => root = None)

\* A delete_player_score has just emptied a bucket of a tree of at least
\* four nodes, and the node is gone.
WitnessBucketInvariant ==
    /\ last.op = "delete_player_score"
    /\ last.removed = 1
    /\ Size(root) >= 3

\* The number of nodes of the subtree o whose score is larger than score.
RECURSIVE NodesAbove(_, _)
NodesAbove(o, score) ==
    IF o = None THEN 0
    ELSE (IF o[1].score > score THEN 1 ELSE 0)
         + NodesAbove(o[1].left, score) + NodesAbove(o[1].right, score)

\* C6: rank value.  For every stored (player, score) pair, rank_of returns
\* 1 + the number of nodes whose score is larger.
RankValue ==
    \A n \in SubNodes(root) :
        \A i \in DOMAIN n.player_id :
            Leaderboard_rank_of(root, n.player_id[i], n.score)
                = Some(1 + NodesAbove(root, n.score))

\* C7: top-N order.  For every n, top_n_players(n) lists its entries by
\* non-increasing score, and every node with a score larger than a listed
\* one has its whole bucket listed, contiguous and in bucket order.
TopNOrder ==
    \A k \in 0..(Entries(root) + MaxOver) :
        LET items == Leaderboard_top_n_players(root, k).items
        IN  /\ \A i, j \in DOMAIN items :
                  i < j => items[i].score >= items[j].score
            /\ \A m \in SubNodes(root) :
                  (\E j \in DOMAIN items : items[j].score < m.score) =>
                      \E i \in DOMAIN items :
                          /\ i + Len(m.player_id) - 1 <= Len(items)
                          /\ \A d \in DOMAIN m.player_id :
                                items[i + d - 1] = Entry(m.player_id[d], m.score)

Without(bs, p) ==
    SelectSeq([i \in DOMAIN bs |-> Bucket(bs[i].score, retain(bs[i].players, p))],
              LAMBDA b : Len(b.players) > 0)

RoundTrip == (phase = "delete" /\ pending = {}) => root = None

\* C11: idempotent deletion.  delete_player_score(p, s) for a pair that is
\* not stored, and delete_player(p) for a player stored nowhere, leave the
\* tree as it was: shape, scores, buckets, cached heights and counts.
IdempotentDeletion ==
    /\ \A p \in Players, s \in Scores \cup BalScores :
          ~Stored(root, p, s) =>
              Leaderboard_delete_player_score(root, p, s) = root
    /\ \A p \in Players :
          (\A n \in SubNodes(root) : p \notin Range(n.player_id)) =>
              Leaderboard_delete_player(root, p) = root

\* C12: rank absence.  rank_of(p, s) is None whenever the pair (p, s) is
\* not stored: in the empty tree, when no node has score s, and when p is
\* stored under other scores only.
RankAbsence ==
    \A p \in Players, s \in 0..(MaxScore + 1) :
        ~Stored(root, p, s) => Leaderboard_rank_of(root, p, s) = None

\* A player stored under one score is asked for under another score that a
\* node of the tree has, and under a score that no node has.
WitnessRankAbsence ==
    \E p \in Players, s, t, u \in Scores :
        /\ Stored(root, p, s)
        /\ t \in ScoresOf(root)
        /\ ~Stored(root, p, t)
        /\ Leaderboard_rank_of(root, p, t) = None
        /\ u \notin ScoresOf(root)
        /\ Leaderboard_rank_of(root, p, u) = None
        /\ Leaderboard_rank_of(root, p, s) # None

\* C18: pre-order iteration.  The items next() returns are the nodes'
\* (bucket, score) pairs in the order node, left subtree, right subtree,
\* each node once; next() returns None exactly when every node has been
\* returned (at once for an empty tree).
PreOrderIteration ==
    /\ phase \in {"iterating", "done"} =>
          /\ Len(yielded) <= Size(root)
          /\ yielded = SubSeq(Buckets(root), 1, Len(yielded))
    /\ (phase = "iterating" /\ Len(yielded) < Size(root)) =>
          LeaderboardIter_next(nodes).item # None
    /\ phase = "done" => yielded = Buckets(root)

\* An iteration has ended on a tree whose root has two children, the left
\* one with a child of its own.
WitnessPreOrderIteration ==
    /\ phase = "done"
    /\ root # None
    /\ root[1].left # None
    /\ root[1].right # None
    /\ root[1].left[1].children >= 1
    /\ Len(yielded) = Size(root)

\* The node with the highest score holds exactly two players, and lower is
\* the node with the next lower score.
TiedAtTop(top, lower) ==
    /\ top \in SubNodes(root)
    /\ lower \in SubNodes(root)
    /\ \A m \in SubNodes(root) : m.score <= top.score
    /\ Len(top.player_id) = 2
    /\ top.player_id[1] # top.player_id[2]
    /\ lower.score < top.score
    /\ \A m \in SubNodes(root) : m.score < top.score => m.score <= lower.score

InsertOnlySound ==
    /\ BSTOrdering
    /\ AVLBalance
    /\ ScoreUniqueness
    /\ \A p \in Players, s \in InsScores :
          root # None => insert_rebalances(root[1], p, s) <= 1

\* A tree of four or more nodes on which one more insert rotates below the
\* root, and a tree that an insert has just put a new root on.
WitnessInsertOnlySound ==
    /\ last.op = "insert"
    /\ Size(root) >= 4
    /\ Entries(root) < MaxInsEntries
    /\ \E p \in Players, s \in InsScores :
          /\ insert_rebalances(root[1], p, s) = 1
          /\ insert(root[1], p, s).score = root[1].score
          /\ Size(Some(insert(root[1], p, s))) = Size(root) + 1

\* C14: insert conserves content.  In every reachable state, insert(p, s)
\* leaves every bucket as it was except one: either an existing bucket of
\* score s, which gets p appended as its last player even if it held p
\* already, or a new bucket of score s holding p alone.  So the multiset of
\* stored entries grows by exactly one (p, s), whether or not the insert
\* rotates.
InsertConservesContent ==
    Entries(root) < MaxEntries =>
        \A p \in Players, s \in Scores :
            LET old == Buckets(root)
                new == Buckets(Leaderboard_insert(root, p, s))
            IN  \/ \E i \in DOMAIN old :
                      /\ old[i].score = s
                      /\ SameBag(new, [old EXCEPT ![i].players = Append(@, p)])
                \/ SameBag(new, Append(old, Bucket(s, <<p>>)))

\* The last insert repeated a pair of its bucket, and some next insert
\* rotates at the root.
WitnessInsertConservesContent ==
    /\ last.op = "insert"
    /\ last.removed = 0
    /\ Entries(root) < MaxEntries
    /\ \E n \in SubNodes(root) :
          /\ Count(n.player_id, last.player) >= 2
          /\ n.player_id[Len(n.player_id)] = last.player
    /\ \E p \in Players, s \in Scores :
          /\ s \notin ScoresOf(root)
          /\ insert(root[1], p, s).score # root[1].score

\* C17: no contract violation is reachable.  In every state reachable
\* through insert, delete_player and delete_player_score no call has run
\* an unreachable!() of rebalance_if_needed or an unwrap() of a missing
\* child in rebalance_if_needed, rotate_left or rotate_right.
NoContractViolation == ~panicked

\* A call has removed a node without a panic, and the next insert of a new score puts
\* its new node at the root of a tree of two or more nodes, which only the
\* two rotations of a double rotation do.
WitnessNoContractViolation ==
    /\ ~panicked
    /\ last.op \in {"delete_player", "delete_player_score"}
    /\ last.removed >= 1
    /\ Size(root) >= 2
    /\ Entries(root) < MaxEntries
    /\ \E p \in Players, s \in Scores :
          /\ s \notin ScoresOf(root)
          /\ insert(root[1], p, s).score = s

\* The node of the highest score in a non-empty subtree.
MaxNode(o) == CHOOSE m \in SubNodes(o) : \A k \in SubNodes(o) : k.score <= m.score

\* C15: two-children deletion uses the in-order predecessor.  When the
\* last player of a node with two children is removed and the node is not
\* rotated afterwards, the node holds the (score, bucket) pair of the
\* maximum-score node of its former left subtree, and the left subtree has
\* lost that pair and no other.
PredecessorReplaces ==
    \A n \in SubNodes(root) :
        (n.left # None /\ n.right # None /\ Cardinality(Range(n.player_id)) = 1) =>
            LET d == delete([n EXCEPT !.player_id = <<>>]).node
                pred == MaxNode(n.left)
            IN  (~IsPanic(d) /\ d.right = n.right) =>
                    /\ d.score = pred.score
                    /\ d.player_id = pred.player_id
                    /\ SameBag(Append(Buckets(d.left),
                                      Bucket(pred.score, pred.player_id)),
                               Buckets(n.left))

\* The node rebalance_if_needed is given when delete_player_score(p, s) has
\* returned from the child of n on the side of s: n with that child's
\* result and its attributes updated.
AfterChildDelete(n, p, s) ==
    IF s < n.score
    THEN update_attrs([n EXCEPT !.left = Settle(delete_player_score(n.left[1], p, s))])
    ELSE update_attrs([n EXCEPT !.right = Settle(delete_player_score(n.right[1], p, s))])

\* C16: rotation case selection.  When rebalance_if_needed finds a node
\* right-heavy by 2 or more whose right child is balanced or right-heavy it
\* does a single left rotation, and when it finds a node left-heavy by 2 or
\* more whose left child is balanced or left-heavy it does a single right
\* rotation.
RotationCaseSelection ==
    \A n \in SubNodes(root), s \in ScoresOf(root) :
        ((s < n.score /\ n.left # None) \/ (s > n.score /\ n.right # None)) =>
            LET m == AfterChildDelete(n, "p", s)
            IN  /\ (/\ height_right(m) - height_left(m) >= 2
                    /\ height_right(m.right[1]) >= height_left(m.right[1]))
                       => rebalance_if_needed(m) = rotate_left(m)
                /\ (/\ height_left(m) - height_right(m) >= 2
                    /\ height_left(m.left[1]) >= height_right(m.left[1]))
                       => rebalance_if_needed(m) = rotate_right(m)

====
